---- MODULE Spec2Model ----
(***************************************************************************)
(* State-machine model of the dashboard's credential / connection logic:   *)
(*   - ClientSupabaseConfig (src/src/components/ClientSupabaseConfig.tsx)  *)
(*   - Configuracao         (src/src/pages/Configuracao.tsx)               *)
(*   - AdminWebhooks        (src/unnamed/part_003)                         *)
(*   - row-level policies   (src/supabase/migrations/2026...sql)           *)
(* JavaScript strings are TLA+ strings; null / SQL NULL is the value NULL. *)
(* An async handler is one action per stretch of code between two awaits.  *)
(***************************************************************************)
EXTENDS FiniteSets, Integers, Sequences, TLC

VARIABLES
    \* ---- primary store ----
    profiles,               \* [Users -> profile row]
    meta_credentials,       \* set of rows
    webhook_urls,           \* set of rows
    user_roles,             \* set of rows
    \* ---- ClientSupabaseConfig component state ----
    credentials,            \* useState {url, key}
    isSaving,
    connectionStatus,
    connectionError,
    hasExistingConfig,
    timer,                  \* pending debounce timer (its captured url/key) or NoTimer
    probes,                 \* testConnection calls awaiting the external store
    saveCall,               \* handleSave: position and captured closure values
    disconnectCall,         \* handleDisconnect: position
    fetchProfileCall,       \* fetchProfile: position
    mounted,                \* the component is mounted
    \* ---- Configuracao page state (Meta credentials card) ----
    metaCredentials,        \* useState {pixel_id, page_id, access_token}
    metaIsSaving,
    hasExistingCredentials,
    fetchCredentialsCall,   \* fetchCredentials: position
    metaSaveCall,           \* handleSave: position and the request it issued
    prevSave,               \* the row of the preceding save the store processed
    isTesting,
    testCall,               \* handleTestConnection: position and the request it issued
    \* ---- AdminWebhooks page state ----
    isAdmin,                \* useAdmin().isAdmin
    adminLoading,           \* useAdmin().loading
    adminProfiles,          \* useState profiles
    adminWebhooks,          \* useState webhooks (the displayed listing)
    selectedUserId,
    webhookUrl,
    adminIsSaving,
    isLoading,
    fetchDataCall,          \* fetchData: position and its profilesData
    addCall,                \* handleAddWebhook: position and captured values
    deleteCalls,            \* ids of handleDeleteWebhook calls awaiting the store
    adminQueries,           \* tables the page has queried so far
    peerWebhooks,           \* useState webhooks of a second admin's page
    peerAddCall,            \* handleAddWebhook of the second admin's page
    nextId,                 \* the store's next webhook id / creation stamp
    \* ---- shared observation ----
    toast,                  \* the notifications raised by the step taken last
    last                    \* the step taken last and what it did

storeVars == <<profiles, meta_credentials, webhook_urls, user_roles>>

clientVars == <<credentials, isSaving, connectionStatus, connectionError,
                hasExistingConfig, timer, probes, saveCall, disconnectCall,
                fetchProfileCall, mounted>>

testVars == <<isTesting, testCall>>

metaVars == <<metaCredentials, metaIsSaving, hasExistingCredentials,
              fetchCredentialsCall, metaSaveCall, prevSave, testVars>>

peerVars == <<peerWebhooks, peerAddCall>>

adminPageVars == <<isAdmin, adminLoading, adminProfiles, adminWebhooks,
                   selectedUserId, webhookUrl, adminIsSaving, isLoading,
                   fetchDataCall, addCall, deleteCalls, adminQueries, peerVars>>

adminVars == <<adminPageVars, nextId>>

vars == <<storeVars, clientVars, metaVars, adminVars, toast, last>>

----------------------------------------------------------------------------
(* Values *)

NULL == "NULL"

Users == {"u1", "u2"}

\* the signed-in user of the session under study (useAuth().user)
User == "u1"

\* the signed-in user of a second session running at the same time
Peer == "u2"

\* bound on testConnection calls in flight at once
MaxProbes == 1

GoodUrl == "https://abc123.supabase.co"

HttpUrl == "http://abc123.supabase.co"

\* what the user can type into the URL field
FormUrls == {"", GoodUrl, HttpUrl, "https://ABC.supabase.co"}

\* what the user can type into the key field
FormKeys == {"", "validlookingkey", "wrongkey"}

\* messages an error coming back from the external store can carry
NotExistMsg == "relation \"public._test_connection_\" does not exist"

NoError == [kind |-> "none", message |-> NULL]

\* outcome of the awaited probe query: no error, an error in the result, a throw
ProbeResponses ==
    {NoError,
     [kind |-> "returned", message |-> NotExistMsg],
     [kind |-> "returned", message |-> "Invalid API key"],
     [kind |-> "thrown", message |-> "AuthApiError: Invalid API key provided"],
     [kind |-> "thrown", message |-> "Failed to fetch"]}

UrlFormatMsg == "Formato de URL inválido. Use: https://xxxxx.supabase.co"

InvalidKeyMsg == "Chave de API inválida"

ProbeFallbackMsg == "Não foi possível conectar ao Supabase."

Toast(title, description) == [title |-> title, description |-> description]

NoTimer == [armed |-> FALSE, url |-> "", key |-> ""]

Idle == [pc |-> "idle"]

NoRow == [user_id |-> NULL]

\* a page that is not part of the session under study: its state at rest
ClientAtRest ==
    /\ credentials = [url |-> "", key |-> ""]
    /\ isSaving = FALSE
    /\ connectionStatus = "disconnected"
    /\ connectionError = NULL
    /\ hasExistingConfig = FALSE
    /\ timer = NoTimer
    /\ probes = <<>>
    /\ saveCall = Idle
    /\ disconnectCall = Idle
    /\ fetchProfileCall = Idle
    /\ mounted = FALSE

MetaAtRest ==
    /\ metaCredentials = [pixel_id |-> "", page_id |-> "", access_token |-> ""]
    /\ metaIsSaving = FALSE
    /\ hasExistingCredentials = FALSE
    /\ fetchCredentialsCall = Idle
    /\ metaSaveCall = Idle
    /\ prevSave = NoRow
    /\ isTesting = FALSE
    /\ testCall = Idle

AdminAtRest ==
    /\ isAdmin = FALSE
    /\ adminLoading = TRUE
    /\ adminProfiles = <<>>
    /\ adminWebhooks = <<>>
    /\ selectedUserId = ""
    /\ webhookUrl = ""
    /\ adminIsSaving = FALSE
    /\ isLoading = TRUE
    /\ fetchDataCall = Idle
    /\ addCall = Idle
    /\ deleteCalls = {}
    /\ adminQueries = {}
    /\ peerWebhooks = <<>>
    /\ peerAddCall = [pc |-> "loading"]

----------------------------------------------------------------------------
(* Pure helpers *)

\* String.prototype.includes
Includes(s, pat) ==
    \E i \in 1..(Len(s) - Len(pat) + 1) : SubSeq(s, i, i + Len(pat) - 1) = pat

HostChars == {"a","b","c","d","e","f","g","h","i","j","k","l","m","n","o","p","q",
              "r","s","t","u","v","w","x","y","z","0","1","2","3","4","5","6","7",
              "8","9","-"}

\* /^https:\/\/[a-z0-9-]+\.supabase\.co$/.test(url)
UrlPatternTest(url) ==
    LET pre == "https://"
        suf == ".supabase.co"
        n == Len(url)
    IN  /\ n >= Len(pre) + 1 + Len(suf)
        /\ SubSeq(url, 1, Len(pre)) = pre
        /\ SubSeq(url, n - Len(suf) + 1, n) = suf
        /\ \A i \in (Len(pre) + 1)..(n - Len(suf)) : SubSeq(url, i, i) \in HostChars

\* the record `last` of a step named op
Step(op) == [op |-> op, net |-> 0, ret |-> "none", resp |-> NoError,
             probeError |-> NULL, repeat |-> FALSE]

RemoveAt(s, i) == SubSeq(s, 1, i - 1) \o SubSeq(s, i + 1, Len(s))

\* JavaScript truthiness of a string | null
Truthy(v) == v # NULL /\ v # ""

----------------------------------------------------------------------------
(* ClientSupabaseConfig: testConnection *)

\* variant of TestConnectionSync that skips the URL format check
TestConnectionSyncNoFormatCheck(url, key, curError) ==
    IF url = "" \/ key = ""
    THEN [status |-> "disconnected", error |-> curError, ret |-> "false",
          net |-> 0, probeError |-> NULL]
    ELSE [status |-> "connecting", error |-> curError, ret |-> "pending",
          net |-> 1, probeError |-> NULL]

\* testConnection up to its first await: the state it sets, what it returns
\* ("pending" when it goes on to await the probe query), the network calls it
\* issues and the message it hands to setConnectionError (NULL when none).
TestConnectionSync(url, key, curError) ==
    IF url = "" \/ key = ""
    THEN [status |-> "disconnected", error |-> curError, ret |-> "false",
          net |-> 0, probeError |-> NULL]
    ELSE IF ~UrlPatternTest(url)
    THEN [status |-> "error", error |-> UrlFormatMsg, ret |-> "false",
          net |-> 0, probeError |-> UrlFormatMsg]
    ELSE [status |-> "connecting", error |-> curError, ret |-> "pending",
          net |-> 1, probeError |-> NULL]

\* variant of TestConnectionSettle that treats every returned error as a failure
TestConnectionSettleAnyError(resp) ==
    IF resp.kind = "thrown"
    THEN IF Includes(resp.message, "Invalid API key")
         THEN [status |-> "error", error |-> InvalidKeyMsg, ret |-> "false",
               probeError |-> InvalidKeyMsg]
         ELSE [status |-> "connected", error |-> NULL, ret |-> "true",
               probeError |-> NULL]
    ELSE IF resp.kind = "returned"
    THEN [status |-> "error", error |-> InvalidKeyMsg, ret |-> "false",
          probeError |-> InvalidKeyMsg]
    ELSE [status |-> "connected", error |-> NULL, ret |-> "true",
          probeError |-> NULL]

\* variant of TestConnectionSettle that leaves the error message as it is
\* when the probe ends connected
TestConnectionSettleKeepsMessage(resp) ==
    IF resp.kind # "none" /\ Includes(resp.message, "Invalid API key")
    THEN [status |-> "error", error |-> InvalidKeyMsg, ret |-> "false",
          probeError |-> InvalidKeyMsg]
    ELSE [status |-> "connected", error |-> connectionError, ret |-> "true",
          probeError |-> NULL]

\* testConnection after the awaited probe query came back with resp
TestConnectionSettle(resp) ==
    IF resp.kind = "thrown"
    THEN \* catch (error)
         IF Includes(resp.message, "Invalid API key")
         THEN [status |-> "error", error |-> InvalidKeyMsg, ret |-> "false",
               probeError |-> InvalidKeyMsg]
         ELSE [status |-> "connected", error |-> NULL, ret |-> "true",
               probeError |-> NULL]
    ELSE IF resp.kind = "returned" /\ Includes(resp.message, "Invalid API key")
    THEN [status |-> "error", error |-> InvalidKeyMsg, ret |-> "false",
          probeError |-> InvalidKeyMsg]
    ELSE [status |-> "connected", error |-> NULL, ret |-> "true",
          probeError |-> NULL]

----------------------------------------------------------------------------
(* ClientSupabaseConfig: inputs, debounce effect, fetchProfile *)

\* the inputs are disabled, and Disconnect is offered instead of Save
FormLocked == hasExistingConfig /\ connectionStatus = "connected"

\* a state setter called with new: React drops the update once the component
\* is unmounted
SetState(cur, new) == IF mounted THEN new ELSE cur

\* variant of Rearm that lets a pending timer run on instead of replacing it
RearmKeepPending(old, new) ==
    IF (new.url # old.url \/ new.key # old.key) /\ ~timer.armed
    THEN [armed |-> TRUE, url |-> new.url, key |-> new.key]
    ELSE timer

\* the debounce effect: a render with changed url/key clears the pending timer
\* and arms a new one that captures the new values
Rearm(old, new) ==
    IF new.url # old.url \/ new.key # old.key
    THEN [armed |-> TRUE, url |-> new.url, key |-> new.key]
    ELSE timer

\* onChange of the url input
EditUrl(u) ==
    /\ mounted
    /\ ~FormLocked
    /\ u # credentials.url
    /\ credentials' = [credentials EXCEPT !.url = u]
    /\ timer' = Rearm(credentials, credentials')
    /\ toast' = <<>>
    /\ last' = Step("edit")
    /\ UNCHANGED <<storeVars, isSaving, connectionStatus, connectionError,
                   hasExistingConfig, probes, saveCall, disconnectCall,
                   fetchProfileCall>>
    /\ UNCHANGED <<metaVars, adminVars, mounted>>

\* onChange of the key input
EditKey(k) ==
    /\ mounted
    /\ ~FormLocked
    /\ k # credentials.key
    /\ credentials' = [credentials EXCEPT !.key = k]
    /\ timer' = Rearm(credentials, credentials')
    /\ toast' = <<>>
    /\ last' = Step("edit")
    /\ UNCHANGED <<storeVars, isSaving, connectionStatus, connectionError,
                   hasExistingConfig, probes, saveCall, disconnectCall,
                   fetchProfileCall>>
    /\ UNCHANGED <<metaVars, adminVars, mounted>>

\* the setTimeout callback of the debounce effect, 500 ms after the last change
TimerFire ==
    /\ timer.armed
    /\ timer' = NoTimer
    /\ toast' = <<>>
    /\ IF timer.url # "" /\ timer.key # ""
       THEN LET r == TestConnectionSync(timer.url, timer.key, connectionError)
            IN  /\ r.net = 1 => Len(probes) < MaxProbes
                /\ connectionStatus' = r.status
                /\ connectionError' = r.error
                /\ probes' = IF r.ret = "pending"
                             THEN Append(probes, [url |-> timer.url, key |-> timer.key])
                             ELSE probes
                /\ last' = [Step("timerFire") EXCEPT !.net = r.net, !.ret = r.ret,
                                                     !.probeError = r.probeError]
       ELSE /\ connectionStatus' = "disconnected"
            /\ connectionError' = NULL
            /\ probes' = probes
            /\ last' = Step("timerFire")
    /\ UNCHANGED <<storeVars, credentials, isSaving, hasExistingConfig, saveCall,
                   disconnectCall, fetchProfileCall>>
    /\ UNCHANGED <<metaVars, adminVars, mounted>>

\* a debounced testConnection call resumes after its awaited probe query
ProbeSettle(i, resp) ==
    /\ i \in 1..Len(probes)
    /\ LET r == TestConnectionSettle(resp)
       IN  /\ connectionStatus' = SetState(connectionStatus, r.status)
           /\ connectionError' = SetState(connectionError, r.error)
           /\ last' = [Step("probeSettle") EXCEPT !.ret = r.ret, !.resp = resp,
                                                  !.probeError = r.probeError]
    /\ probes' = RemoveAt(probes, i)
    /\ toast' = <<>>
    /\ UNCHANGED <<storeVars, credentials, isSaving, hasExistingConfig, timer,
                   saveCall, disconnectCall, fetchProfileCall>>
    /\ UNCHANGED <<metaVars, adminVars, mounted>>

\* fetchProfile resumes after its awaited select; failed: the query gave no data
FetchProfileSettle(failed) ==
    /\ fetchProfileCall.pc = "pending"
    /\ fetchProfileCall' = [pc |-> "done"]
    /\ LET data == profiles[User]
       IN  IF mounted /\ ~failed /\ Truthy(data.client_supabase_url)
                              /\ Truthy(data.client_supabase_key)
           THEN /\ credentials' = [url |-> data.client_supabase_url,
                                    key |-> data.client_supabase_key]
                /\ hasExistingConfig' = TRUE
           ELSE UNCHANGED <<credentials, hasExistingConfig>>
    /\ timer' = Rearm(credentials, credentials')
    /\ toast' = <<>>
    /\ last' = Step("fetchProfile")
    /\ UNCHANGED <<storeVars, isSaving, connectionStatus, connectionError, probes,
                   saveCall, disconnectCall>>
    /\ UNCHANGED <<metaVars, adminVars, mounted>>

\* variant of Unmount whose effect cleanup leaves the timer pending
UnmountNoCleanup ==
    /\ mounted
    /\ mounted' = FALSE
    /\ timer' = timer
    /\ credentials' = [url |-> "", key |-> ""]
    /\ isSaving' = FALSE
    /\ connectionStatus' = "disconnected"
    /\ connectionError' = NULL
    /\ hasExistingConfig' = FALSE
    /\ toast' = <<>>
    /\ last' = Step("unmount")
    /\ UNCHANGED <<storeVars, probes, saveCall, disconnectCall, fetchProfileCall>>
    /\ UNCHANGED <<metaVars, adminVars>>

\* the component is torn down: the cleanup of the debounce effect clears the
\* pending timer and the component's state is discarded; calls that are
\* awaiting an answer go on
Unmount ==
    /\ mounted
    /\ mounted' = FALSE
    /\ timer' = NoTimer
    /\ credentials' = [url |-> "", key |-> ""]
    /\ isSaving' = FALSE
    /\ connectionStatus' = "disconnected"
    /\ connectionError' = NULL
    /\ hasExistingConfig' = FALSE
    /\ toast' = <<>>
    /\ last' = Step("unmount")
    /\ UNCHANGED <<storeVars, probes, saveCall, disconnectCall, fetchProfileCall>>
    /\ UNCHANGED <<metaVars, adminVars>>

----------------------------------------------------------------------------
(* ClientSupabaseConfig: handleSave *)

\* the message of an error the primary store answers with
StoreErrMsg == "Failed to fetch"

\* the toast of a save whose probe returned false: the handler reads the
\* connectionError of the render it was created in
ProbeFailedToast(capturedError) ==
    Toast("Falha na conexão",
          IF Truthy(capturedError) THEN capturedError ELSE ProbeFallbackMsg)

\* variant of SaveFieldsMissing that checks the url only
SaveFieldsMissingUrlOnly(c) == c.url = ""

\* !credentials.url || !credentials.key
SaveFieldsMissing(c) == c.url = "" \/ c.key = ""

\* click on Save, up to the first await that suspends the handler
HandleSaveClick ==
    /\ mounted
    /\ ~FormLocked
    /\ ~isSaving
    /\ connectionStatus # "connecting"
    /\ IF SaveFieldsMissing(credentials)
       THEN /\ toast' = <<Toast("Campos obrigatórios",
                                "Preencha a URL e a chave do Supabase.")>>
            /\ last' = Step("handleSave")
            /\ UNCHANGED <<isSaving, connectionStatus, connectionError, saveCall>>
       ELSE LET r == TestConnectionSync(credentials.url, credentials.key,
                                        connectionError)
            IN  /\ connectionStatus' = r.status
                /\ connectionError' = r.error
                /\ last' = [Step("handleSave") EXCEPT !.net = r.net, !.ret = r.ret,
                                                      !.probeError = r.probeError]
                /\ IF r.ret = "pending"
                   THEN /\ isSaving' = TRUE
                        /\ saveCall' = [pc |-> "probing",
                                        url |-> credentials.url,
                                        key |-> credentials.key,
                                        connectionError |-> connectionError]
                        /\ toast' = <<>>
                   ELSE \* isConnected is false: toast, return, finally
                        /\ isSaving' = FALSE
                        /\ saveCall' = Idle
                        /\ toast' = <<ProbeFailedToast(connectionError)>>
    /\ UNCHANGED <<storeVars, credentials, hasExistingConfig, timer, probes,
                   disconnectCall, fetchProfileCall>>
    /\ UNCHANGED <<metaVars, adminVars, mounted>>

\* variant of HandleSaveProbeSettle in which a probe that ends connected
\* stores the pair at once
HandleSaveProbeSettleStoring(resp) ==
    /\ saveCall.pc = "probing"
    /\ LET r == TestConnectionSettle(resp)
       IN  /\ connectionStatus' = SetState(connectionStatus, r.status)
           /\ connectionError' = SetState(connectionError, r.error)
           /\ last' = [Step("handleSaveProbe") EXCEPT !.ret = r.ret, !.resp = resp,
                                                      !.probeError = r.probeError]
           /\ IF r.ret = "true"
              THEN /\ saveCall' = [saveCall EXCEPT !.pc = "writing"]
                   /\ profiles' = [profiles EXCEPT
                                      ![User].client_supabase_url = saveCall.url,
                                      ![User].client_supabase_key = saveCall.key]
                   /\ toast' = <<>>
                   /\ UNCHANGED isSaving
              ELSE /\ saveCall' = Idle
                   /\ profiles' = profiles
                   /\ toast' = <<ProbeFailedToast(saveCall.connectionError)>>
                   /\ isSaving' = SetState(isSaving, FALSE)
    /\ UNCHANGED <<meta_credentials, webhook_urls, user_roles, credentials,
                   hasExistingConfig, timer, probes, disconnectCall,
                   fetchProfileCall>>
    /\ UNCHANGED <<metaVars, adminVars, mounted>>

\* handleSave resumes after `await testConnection(...)`
HandleSaveProbeSettle(resp) ==
    /\ saveCall.pc = "probing"
    /\ LET r == TestConnectionSettle(resp)
       IN  /\ connectionStatus' = SetState(connectionStatus, r.status)
           /\ connectionError' = SetState(connectionError, r.error)
           /\ last' = [Step("handleSaveProbe") EXCEPT !.ret = r.ret, !.resp = resp,
                                                      !.probeError = r.probeError]
           /\ IF r.ret = "true"
              THEN \* goes on to the profile update
                   /\ saveCall' = [saveCall EXCEPT !.pc = "writing"]
                   /\ toast' = <<>>
                   /\ UNCHANGED isSaving
              ELSE /\ saveCall' = Idle
                   /\ toast' = <<ProbeFailedToast(saveCall.connectionError)>>
                   /\ isSaving' = SetState(isSaving, FALSE)
    /\ UNCHANGED <<storeVars, credentials, hasExistingConfig, timer, probes,
                   disconnectCall, fetchProfileCall>>
    /\ UNCHANGED <<metaVars, adminVars, mounted>>

\* variant of ProfileUpdate that writes the url column only
ProfileUpdateUrlOnly(id, url, key) ==
    [u \in Users |->
        IF u = id
        THEN [profiles[u] EXCEPT !.client_supabase_url = url]
        ELSE profiles[u]]

\* variant of ProfileUpdate without the .eq('id', id) filter
ProfileUpdateAllRows(id, url, key) ==
    [u \in Users |->
        [profiles[u] EXCEPT !.client_supabase_url = url,
                            !.client_supabase_key = key]]

\* profiles.update({client_supabase_url, client_supabase_key}).eq('id', id)
ProfileUpdate(id, url, key) ==
    [u \in Users |->
        IF u = id
        THEN [profiles[u] EXCEPT !.client_supabase_url = url,
                                 !.client_supabase_key = key]
        ELSE profiles[u]]

\* variant of HandleSaveWriteSettle without the finally block
HandleSaveWriteSettleNoFinally(ok) ==
    /\ saveCall.pc = "writing"
    /\ IF ok
       THEN /\ profiles' = ProfileUpdate(User, saveCall.url, saveCall.key)
            /\ saveCall' = [saveCall EXCEPT !.pc = "provisioning"]
            /\ toast' = <<>>
       ELSE /\ profiles' = profiles
            /\ saveCall' = Idle
            /\ toast' = <<Toast("Erro ao salvar", StoreErrMsg)>>
    /\ last' = [Step("handleSaveWrite") EXCEPT !.ret = IF ok THEN "ok" ELSE "error"]
    /\ UNCHANGED <<meta_credentials, webhook_urls, user_roles, credentials, isSaving,
                   connectionStatus, connectionError, hasExistingConfig, timer,
                   probes, disconnectCall, fetchProfileCall>>
    /\ UNCHANGED <<metaVars, adminVars, mounted>>

\* handleSave resumes after the awaited profile update; ok: the store applied it
HandleSaveWriteSettle(ok) ==
    /\ saveCall.pc = "writing"
    /\ IF ok
       THEN \* goes on to provisionTables and its awaited query
            /\ profiles' = ProfileUpdate(User, saveCall.url, saveCall.key)
            /\ saveCall' = [saveCall EXCEPT !.pc = "provisioning"]
            /\ toast' = <<>>
            /\ UNCHANGED isSaving
       ELSE \* if (error) throw error; catch; finally
            /\ profiles' = profiles
            /\ saveCall' = Idle
            /\ toast' = <<Toast("Erro ao salvar", StoreErrMsg)>>
            /\ isSaving' = SetState(isSaving, FALSE)
    /\ last' = [Step("handleSaveWrite") EXCEPT !.ret = IF ok THEN "ok" ELSE "error"]
    /\ UNCHANGED <<meta_credentials, webhook_urls, user_roles, credentials,
                   connectionStatus, connectionError, hasExistingConfig, timer,
                   probes, disconnectCall, fetchProfileCall>>
    /\ UNCHANGED <<metaVars, adminVars, mounted>>

\* handleSave resumes after `await provisionTables(...)`; thrown: createClient
\* or the query threw inside provisionTables, which then skips its own toast
HandleSaveProvisionSettle(thrown) ==
    /\ saveCall.pc = "provisioning"
    /\ saveCall' = Idle
    /\ hasExistingConfig' = SetState(hasExistingConfig, TRUE)
    /\ isSaving' = SetState(isSaving, FALSE)
    /\ toast' = (IF thrown THEN <<>>
                 ELSE <<Toast("Atenção", "Lembre-se de criar as tabelas meta_credentials, webhook_urls e events no seu Supabase.")>>)
                \o <<Toast("Configuração salva!",
                           "Seu Supabase foi conectado com sucesso.")>>
    /\ last' = Step("handleSaveDone")
    /\ UNCHANGED <<storeVars, credentials, connectionStatus, connectionError,
                   timer, probes, disconnectCall, fetchProfileCall>>
    /\ UNCHANGED <<metaVars, adminVars, mounted>>

----------------------------------------------------------------------------
(* ClientSupabaseConfig: handleDisconnect *)

\* click on Disconnect, up to the awaited profile update
HandleDisconnectClick ==
    /\ mounted
    /\ FormLocked
    /\ ~isSaving
    /\ isSaving' = TRUE
    /\ disconnectCall' = [pc |-> "writing"]
    /\ toast' = <<>>
    /\ last' = Step("handleDisconnect")
    /\ UNCHANGED <<storeVars, credentials, connectionStatus, connectionError,
                   hasExistingConfig, timer, probes, saveCall, fetchProfileCall>>
    /\ UNCHANGED <<metaVars, adminVars, mounted>>

\* variant of HandleDisconnectSettle that resets the form whatever the store
\* answered
HandleDisconnectSettleResetAlways(ok) ==
    /\ disconnectCall.pc = "writing"
    /\ disconnectCall' = Idle
    /\ isSaving' = SetState(isSaving, FALSE)
    /\ profiles' = IF ok THEN ProfileUpdate(User, NULL, NULL) ELSE profiles
    /\ credentials' = SetState(credentials, [url |-> "", key |-> ""])
    /\ connectionStatus' = SetState(connectionStatus, "disconnected")
    /\ connectionError' = SetState(connectionError, NULL)
    /\ hasExistingConfig' = SetState(hasExistingConfig, FALSE)
    /\ toast' = IF ok
                THEN <<Toast("Desconectado",
                             "Seu Supabase foi desconectado. Você pode conectar outro.")>>
                ELSE <<Toast("Erro ao desconectar", StoreErrMsg)>>
    /\ timer' = Rearm(credentials, credentials')
    /\ last' = [Step("handleDisconnectDone") EXCEPT
                    !.ret = IF ok THEN "ok" ELSE "error"]
    /\ UNCHANGED <<meta_credentials, webhook_urls, user_roles, probes, saveCall,
                   fetchProfileCall>>
    /\ UNCHANGED <<metaVars, adminVars, mounted>>

\* handleDisconnect resumes after the awaited update; ok: the store applied it
HandleDisconnectSettle(ok) ==
    /\ disconnectCall.pc = "writing"
    /\ disconnectCall' = Idle
    /\ isSaving' = SetState(isSaving, FALSE)
    /\ IF ok
       THEN /\ profiles' = ProfileUpdate(User, NULL, NULL)
            /\ credentials' = SetState(credentials, [url |-> "", key |-> ""])
            /\ connectionStatus' = SetState(connectionStatus, "disconnected")
            /\ connectionError' = SetState(connectionError, NULL)
            /\ hasExistingConfig' = SetState(hasExistingConfig, FALSE)
            /\ toast' = <<Toast("Desconectado",
                                "Seu Supabase foi desconectado. Você pode conectar outro.")>>
       ELSE /\ profiles' = profiles
            /\ toast' = <<Toast("Erro ao desconectar", StoreErrMsg)>>
            /\ UNCHANGED <<credentials, connectionStatus, connectionError,
                           hasExistingConfig>>
    /\ timer' = Rearm(credentials, credentials')
    /\ last' = [Step("handleDisconnectDone") EXCEPT
                    !.ret = IF ok THEN "ok" ELSE "error"]
    /\ UNCHANGED <<meta_credentials, webhook_urls, user_roles, probes, saveCall,
                   fetchProfileCall>>
    /\ UNCHANGED <<metaVars, adminVars, mounted>>

----------------------------------------------------------------------------
(* Store contents the sessions start from *)

Profile(email, url, key) ==
    [email |-> email, client_supabase_url |-> url, client_supabase_key |-> key]

MetaRow(uid, pixel, page, token) ==
    [user_id |-> uid, pixel_id |-> pixel, page_id |-> page, access_token |-> token]

WebhookRow(id, uid, url, byAdmin) ==
    [id |-> id, user_id |-> uid, webhook_url |-> url, created_by_admin |-> byAdmin]

\* profiles as earlier sessions of this code can have left them: the external
\* store pointer is absent, or a pair that passed the probe
InitProfiles ==
    {[u \in Users |-> IF u = User THEN p ELSE Profile("u2@example.com",
                          "https://other-1.supabase.co", "otherkey")] :
        p \in {Profile("u1@example.com", NULL, NULL),
               Profile("u1@example.com", GoodUrl, "validlookingkey")}}

----------------------------------------------------------------------------
(* Specification of the ClientSupabaseConfig session *)

InitClient ==
    /\ profiles \in InitProfiles
    /\ meta_credentials = {MetaRow("u1", "111", NULL, "EAAold"),
                           MetaRow("u2", "222", "9", "EAAtwo")}
    /\ webhook_urls = {WebhookRow(1, "u1", "https://hook.example.com/x", TRUE)}
    /\ user_roles = {}
    \* the component as mounted: useState defaults, both effects have run
    /\ credentials = [url |-> "", key |-> ""]
    /\ isSaving = FALSE
    /\ connectionStatus = "disconnected"
    /\ connectionError = NULL
    /\ hasExistingConfig = FALSE
    /\ timer = [armed |-> TRUE, url |-> "", key |-> ""]
    /\ probes = <<>>
    /\ saveCall = Idle
    /\ disconnectCall = Idle
    /\ fetchProfileCall = [pc |-> "pending"]
    /\ mounted = TRUE
    /\ MetaAtRest
    /\ AdminAtRest
    /\ nextId = 2
    /\ toast = <<>>
    /\ last = Step("mount")

NextClient ==
    \/ \E u \in FormUrls : EditUrl(u)
    \/ \E k \in FormKeys : EditKey(k)
    \/ TimerFire
    \/ \E i \in 1..MaxProbes, resp \in ProbeResponses : ProbeSettle(i, resp)
    \/ \E failed \in BOOLEAN : FetchProfileSettle(failed)
    \/ HandleSaveClick
    \/ \E resp \in ProbeResponses : HandleSaveProbeSettle(resp)
    \/ \E ok \in BOOLEAN : HandleSaveWriteSettle(ok)
    \/ \E thrown \in BOOLEAN : HandleSaveProvisionSettle(thrown)
    \/ HandleDisconnectClick
    \/ \E ok \in BOOLEAN : HandleDisconnectSettle(ok)
    \/ Unmount

SpecClient == InitClient /\ [][NextClient]_vars

\* every awaited call of a save or a disconnect comes back: the promise of the
\* probe query, of the profile update and of provisionTables settles
SavingCallsReturn ==
    /\ WF_vars(\E resp \in ProbeResponses : HandleSaveProbeSettle(resp))
    /\ WF_vars(\E ok \in BOOLEAN : HandleSaveWriteSettle(ok))
    /\ WF_vars(\E thrown \in BOOLEAN : HandleSaveProvisionSettle(thrown))
    /\ WF_vars(\E ok \in BOOLEAN : HandleDisconnectSettle(ok))

\* the values typed in the session the progress of save and disconnect is
\* followed in: a well-formed and a malformed url, one key
LiveUrls == {GoodUrl, HttpUrl}

LiveKeys == {"validlookingkey"}

NextClientLive ==
    \/ \E u \in LiveUrls : EditUrl(u)
    \/ \E k \in LiveKeys : EditKey(k)
    \/ TimerFire
    \/ \E i \in 1..MaxProbes, resp \in ProbeResponses : ProbeSettle(i, resp)
    \/ \E failed \in BOOLEAN : FetchProfileSettle(failed)
    \/ HandleSaveClick
    \/ \E resp \in ProbeResponses : HandleSaveProbeSettle(resp)
    \/ \E ok \in BOOLEAN : HandleSaveWriteSettle(ok)
    \/ \E thrown \in BOOLEAN : HandleSaveProvisionSettle(thrown)
    \/ HandleDisconnectClick
    \/ \E ok \in BOOLEAN : HandleDisconnectSettle(ok)
    \/ Unmount

SpecClientLive == InitClient /\ [][NextClientLive]_vars /\ SavingCallsReturn

----------------------------------------------------------------------------
(* Properties of the ClientSupabaseConfig session *)

\* the step taken last ran testConnection up to its first await
CalledTestConnection == last.op \in {"timerFire", "handleSave"} /\ last.ret # "none"

\* the step taken last resumed a testConnection call after its probe query
SettledTestConnection == last.op \in {"probeSettle", "handleSaveProbe"}

\* a pending debounce timer holds the values shown in the form
TimerHoldsForm ==
    timer.armed => timer.url = credentials.url /\ timer.key = credentials.key

\* C1: whenever testConnection is called with a url that does not match
\* ^https://[a-z0-9-]+\.supabase\.co$ (such as http://abc123.supabase.co), it
\* returns false with status 'error' and the URL-format message, and issues no
\* network call.
C1_BadUrlRejectedWithoutNetwork ==
    /\ (CalledTestConnection /\ ~UrlPatternTest(credentials.url)) =>
            /\ connectionStatus = "error"
            /\ connectionError = UrlFormatMsg
            /\ last.ret = "false"
            /\ last.net = 0
            /\ last.op = "handleSave" => saveCall.pc = "idle"
    /\ (CalledTestConnection /\ credentials.url \in {HttpUrl, "https://ABC.supabase.co"}) =>
            /\ connectionStatus = "error"
            /\ connectionError = UrlFormatMsg
            /\ last.net = 0

C1_Witness ==
    /\ last.op = "timerFire"
    /\ last.ret = "false"
    /\ credentials.url = HttpUrl
    /\ connectionStatus = "error"

\* C2: handleSave attempts the profile write only after its probe of the
\* submitted url and key ended 'connected'; a failed probe blocks the write and
\* the notification carries the message that same probe produced, verbatim.
C2_SaveGatedByProbeWithItsMessage ==
    /\ (last.op = "handleSaveProbe" /\ saveCall.pc = "writing") =>
            last.ret = "true" /\ connectionStatus = "connected"
    /\ (last.op \in {"handleSave", "handleSaveProbe"} /\ last.ret = "false") =>
            /\ saveCall.pc = "idle"
            /\ toast = <<Toast("Falha na conexão", last.probeError)>>

\* C3: a settled probe of a well-formed url and non-empty key gives 'error'
\* exactly when the error, returned or thrown, has a message containing
\* "Invalid API key"; any other error ("relation does not exist" included) and
\* no error give 'connected'.
C3_ProbeClassification ==
    SettledTestConnection =>
        /\ (last.resp.kind = "none") =>
                (mounted => connectionStatus = "connected") /\ last.ret = "true"
        /\ (last.resp.kind # "none" /\ Includes(last.resp.message, "Invalid API key")) =>
                (mounted => connectionStatus = "error") /\ last.ret = "false"
        /\ (last.resp.kind # "none" /\ ~Includes(last.resp.message, "Invalid API key")) =>
                (mounted => connectionStatus = "connected") /\ last.ret = "true"
        /\ (last.resp.message = NotExistMsg) =>
                (mounted => connectionStatus = "connected") /\ last.ret = "true"

C3_Witness ==
    /\ last.op = "probeSettle"
    /\ last.resp = [kind |-> "returned", message |-> NotExistMsg]
    /\ credentials = [url |-> GoodUrl, key |-> "validlookingkey"]
    /\ connectionStatus = "connected"

\* C4: in every reachable state each profile has client_supabase_url and
\* client_supabase_key both set or both absent.
C4_PointerBothOrNeither ==
    \A u \in Users :
        Truthy(profiles[u].client_supabase_url) <=> Truthy(profiles[u].client_supabase_key)

C4_Witness ==
    /\ last.op = "handleSaveWrite"
    /\ last.ret = "ok"
    /\ profiles[User].client_supabase_url = GoodUrl
    /\ profiles[User].client_supabase_key = "wrongkey"

\* C5: a successful disconnect sets both external-store fields of the signed-in
\* user's profile to absent and leaves the Meta credential rows, the webhook
\* rows and every other user's profile unchanged.
C5_DisconnectFrame ==
    [][(last'.op = "handleDisconnectDone" /\ last'.ret = "ok") =>
            /\ profiles'[User].client_supabase_url = NULL
            /\ profiles'[User].client_supabase_key = NULL
            /\ profiles'[User].email = profiles[User].email
            /\ \A u \in Users \ {User} : profiles'[u] = profiles[u]
            /\ meta_credentials' = meta_credentials
            /\ webhook_urls' = webhook_urls]_vars

C5_Witness ==
    /\ last.op = "handleDisconnectDone"
    /\ last.ret = "ok"
    /\ profiles[User].client_supabase_url = NULL
    /\ \E r \in meta_credentials : r.user_id = User
    /\ \E w \in webhook_urls : w.user_id = User

\* the status changes the state machine disconnected -> connecting ->
\* {connected | error} allows, with the re-entry into connecting and the reset
\* to disconnected
StatusMoves ==
    {<<"disconnected", "connecting">>, <<"connecting", "connected">>,
     <<"connecting", "error">>, <<"connected", "connecting">>,
     <<"error", "connecting">>, <<"connecting", "disconnected">>,
     <<"connected", "disconnected">>, <<"error", "disconnected">>}

\* C14: while the component is mounted the connection status changes only
\* along disconnected -> connecting -> {connected | error}, back to connecting,
\* or to disconnected: connected and error are entered from connecting only; a
\* quiet period elapsing on non-empty inputs enters connecting, and one
\* elapsing with an empty field resets the status to disconnected.
C14_StatusStateMachine ==
    [][mounted' =>
          /\ (connectionStatus' # connectionStatus) =>
                 <<connectionStatus, connectionStatus'>> \in StatusMoves
          /\ (last'.op = "timerFire" /\ timer.url # "" /\ timer.key # "") =>
                 connectionStatus' = "connecting"
          /\ (last'.op = "timerFire" /\ (timer.url = "" \/ timer.key = "")) =>
                 connectionStatus' = "disconnected"]_vars

\* C16: every change of url or key replaces the pending timer by a new one
\* for the new values; a debounced probe is launched only by a timer that
\* expires while the form still holds the values it was armed for, one probe
\* per expiry, after which no timer is pending; and once the component is torn
\* down no timer is pending, so no probe is launched afterwards.
C16_ProbesDebounced ==
    [][/\ (mounted' /\ credentials' # credentials) =>
              timer' = [armed |-> TRUE, url |-> credentials'.url,
                        key |-> credentials'.key]
       /\ (last'.op = "timerFire") =>
              /\ mounted
              /\ timer = [armed |-> TRUE, url |-> credentials.url,
                          key |-> credentials.key]
              /\ timer' = NoTimer
       /\ (probes' # probes /\ Len(probes') >= Len(probes)) =>
              /\ last'.op = "timerFire"
              /\ probes' = Append(probes, [url |-> credentials.url,
                                           key |-> credentials.key])
       /\ ~mounted' => timer' = NoTimer]_vars

\* url and key were typed one after the other, and the timer that then
\* expired launched the one probe, for the values typed last
C16_Witness ==
    /\ last.op = "timerFire"
    /\ last.net = 1
    /\ probes = <<[url |-> GoodUrl, key |-> "wrongkey"]>>
    /\ credentials = [url |-> GoodUrl, key |-> "wrongkey"]
    /\ timer = NoTimer

\* C18: a step of the connection prober, started by the debounce timer or by
\* a save, writes nothing to the primary store; the external-store fields of
\* a profile change only in the write step of a save, which is reached only
\* after that save's probe returned true, or in a disconnect.
C18_ProberWritesNothing ==
    [][/\ (last'.op \in {"timerFire", "probeSettle", "handleSave", "handleSaveProbe"}) =>
              storeVars' = storeVars
       /\ (profiles' # profiles) =>
              \/ last'.op = "handleDisconnectDone"
              \/ last'.op = "handleSaveWrite" /\ saveCall.pc = "writing"
       /\ (saveCall'.pc = "writing" /\ saveCall.pc # "writing") =>
              last'.op = "handleSaveProbe" /\ last'.ret = "true"
       /\ (last'.op \in {"handleSave", "handleSaveProbe"} /\ last'.ret = "false") =>
              saveCall' = Idle /\ storeVars' = storeVars]_vars

\* a save whose probe failed on the key has ended and the profile still has
\* no external-store pointer
C18_Witness ==
    /\ last.op = "handleSaveProbe"
    /\ last.ret = "false"
    /\ credentials = [url |-> GoodUrl, key |-> "wrongkey"]
    /\ saveCall = Idle
    /\ profiles[User].client_supabase_url = NULL
    /\ profiles[User].client_supabase_key = NULL

\* C19: a save of the external database pointer with an empty url or an empty
\* key raises the required-fields notification and returns: testConnection is
\* not called, no probe and no store call is made, and the profile is unchanged.
C19_EmptyPointerSaveRejected ==
    [][(last'.op = "handleSave" /\ (credentials.url = "" \/ credentials.key = "")) =>
            /\ toast' = <<Toast("Campos obrigatórios",
                                "Preencha a URL e a chave do Supabase.")>>
            /\ last'.ret = "none"
            /\ last'.net = 0
            /\ saveCall' = Idle
            /\ ~isSaving'
            /\ probes' = probes
            /\ connectionStatus' = connectionStatus
            /\ storeVars' = storeVars]_vars

C19_Witness ==
    /\ last.op = "handleSave"
    /\ last.ret = "none"
    /\ credentials = [url |-> GoodUrl, key |-> ""]
    /\ toast = <<Toast("Campos obrigatórios", "Preencha a URL e a chave do Supabase.")>>
    /\ saveCall = Idle

\* no testConnection call is awaiting its probe query and no debounce timer
\* is pending
ProbesAtQuiet ==
    /\ mounted
    /\ probes = <<>>
    /\ saveCall.pc # "probing"
    /\ ~timer.armed

\* C24: once every probe in flight has completed and no timer is pending, the
\* status shown is the outcome of probing the url and key in the form:
\* 'disconnected' when one of them is empty, 'error' with the URL-format
\* message when the url is malformed, 'connected' or 'error' otherwise; the
\* answer of a probe started for earlier inputs does not replace it.
C24_StatusIsOutcomeForCurrentInputs ==
    ProbesAtQuiet =>
        /\ (credentials.url = "" \/ credentials.key = "") =>
               connectionStatus = "disconnected"
        /\ (credentials.url # "" /\ credentials.key # ""
                /\ ~UrlPatternTest(credentials.url)) =>
               connectionStatus = "error" /\ connectionError = UrlFormatMsg
        /\ (credentials.url # "" /\ credentials.key # ""
                /\ UrlPatternTest(credentials.url)) =>
               connectionStatus \in {"connected", "error"}

\* C25: whenever the form is locked and offers Disconnect instead of Save
\* (hasExistingConfig is true and the status is 'connected'), the url and key
\* in the form are the ones stored in the signed-in user's profile.
C25_LockedFormShowsStoredPair ==
    (mounted /\ FormLocked) =>
        /\ credentials.url = profiles[User].client_supabase_url
        /\ credentials.key = profiles[User].client_supabase_key

\* C27: a disconnect whose store update fails leaves every profile and the
\* form as they were (url, key, status, connection error, hasExistingConfig,
\* pending timer) and shows the one 'Erro ao desconectar' notification.
C27_FailedDisconnectChangesNothing ==
    [][(last'.op = "handleDisconnectDone" /\ last'.ret = "error") =>
            /\ profiles' = profiles
            /\ storeVars' = storeVars
            /\ credentials' = credentials
            /\ connectionStatus' = connectionStatus
            /\ connectionError' = connectionError
            /\ hasExistingConfig' = hasExistingConfig
            /\ timer' = timer
            /\ toast' = <<Toast("Erro ao desconectar", StoreErrMsg)>>]_vars

\* the update of a disconnect failed and the form is still locked on the
\* stored pair
C27_Witness ==
    /\ last.op = "handleDisconnectDone"
    /\ last.ret = "error"
    /\ mounted
    /\ FormLocked
    /\ credentials = [url |-> GoodUrl, key |-> "validlookingkey"]
    /\ profiles[User].client_supabase_url = GoodUrl
    /\ disconnectCall = Idle
    /\ toast = <<Toast("Erro ao desconectar", StoreErrMsg)>>

\* C29: in every reachable state a connection error message is present when
\* the status is 'error' and none is present when the status is 'connected'
\* or 'disconnected'.
C29_ErrorMessageMatchesStatus ==
    /\ (connectionStatus = "error") => Truthy(connectionError)
    /\ (connectionStatus \in {"connected", "disconnected"}) => connectionError = NULL

\* a probe ended on the key's rejection: status 'error' with its message
C29_Witness ==
    /\ last.op = "probeSettle"
    /\ last.ret = "false"
    /\ mounted
    /\ connectionStatus = "error"
    /\ connectionError = InvalidKeyMsg

\* C28: the saving flag is set only while a save or a disconnect awaits one of
\* its calls, and, given that the awaited calls return, a flag that is set is
\* cleared again, whichever way the probe, the store update and the
\* provisioning end.
C28_SavingFlagCleared ==
    /\ [](isSaving => (saveCall.pc # "idle" \/ disconnectCall.pc # "idle"))
    /\ (isSaving ~> ~isSaving)

\* the store refused the update of a save and the flag is down again
C28_Witness ==
    /\ last.op = "handleSaveWrite"
    /\ last.ret = "error"
    /\ mounted
    /\ saveCall = Idle
    /\ ~isSaving

----------------------------------------------------------------------------
(* Configuracao: the Meta credentials card *)

PixelIds == {"", "123"}

PageIds == {"", "9"}

AccessTokens == {"", "EAAnew"}

DuplicateKeyMsg == "duplicate key value violates unique constraint"

\* rows of meta_credentials with user_id = uid
MetaRowsOf(uid) == {r \in meta_credentials : r.user_id = uid}

\* .select('*').eq('user_id', uid).maybeSingle(): the row, or null when there
\* is none or the query failed
MetaMaybeSingle(uid, failed) ==
    IF ~failed /\ Cardinality(MetaRowsOf(uid)) = 1
    THEN CHOOSE r \in MetaRowsOf(uid) : TRUE
    ELSE NoRow

\* meta_credentials.update({...}).eq('user_id', uid)
MetaUpdate(uid, pixel, page, token) ==
    {IF r.user_id = uid THEN MetaRow(uid, pixel, page, token) ELSE r :
        r \in meta_credentials}

\* meta_credentials.insert({...}): user_id is unique, a second row is refused
MetaInsertRefused(uid) == MetaRowsOf(uid) # {}

MetaInsert(uid, pixel, page, token) ==
    meta_credentials \cup {MetaRow(uid, pixel, page, token)}

\* onChange of the three inputs
MetaEdit(field, v) ==
    /\ metaCredentials[field] # v
    /\ metaCredentials' = [metaCredentials EXCEPT ![field] = v]
    /\ toast' = <<>>
    /\ last' = Step("metaEdit")
    /\ UNCHANGED <<storeVars, metaIsSaving, hasExistingCredentials,
                   fetchCredentialsCall, metaSaveCall, prevSave>>
    /\ UNCHANGED <<clientVars, adminVars, testVars>>

\* fetchCredentials resumes after its awaited select
FetchCredentialsSettle(failed) ==
    /\ fetchCredentialsCall.pc = "pending"
    /\ fetchCredentialsCall' = [pc |-> "done"]
    /\ LET data == MetaMaybeSingle(User, failed)
       IN  IF data # NoRow
           THEN /\ metaCredentials' =
                       [pixel_id |-> data.pixel_id,
                        page_id |-> IF Truthy(data.page_id) THEN data.page_id ELSE "",
                        access_token |-> data.access_token]
                /\ hasExistingCredentials' = TRUE
           ELSE UNCHANGED <<metaCredentials, hasExistingCredentials>>
    \* a failed query leaves data null; its error is not looked at
    /\ toast' = <<>>
    /\ last' = [Step("fetchCredentials") EXCEPT !.ret = IF failed THEN "error" ELSE "ok"]
    /\ UNCHANGED <<storeVars, metaIsSaving, metaSaveCall, prevSave>>
    /\ UNCHANGED <<clientVars, adminVars, testVars>>

\* variant of MetaFieldsMissing that checks the pixel id only
MetaFieldsMissingPixelOnly(c) == c.pixel_id = ""

\* !credentials.pixel_id || !credentials.access_token
MetaFieldsMissing(c) == c.pixel_id = "" \/ c.access_token = ""

\* click on Save, up to the awaited update or insert
MetaHandleSaveClick ==
    /\ ~metaIsSaving
    /\ IF MetaFieldsMissing(metaCredentials)
       THEN /\ toast' = <<Toast("Campos obrigatórios",
                                "Pixel ID e Access Token são obrigatórios.")>>
            /\ last' = Step("metaHandleSave")
            /\ UNCHANGED <<metaIsSaving, metaSaveCall>>
       ELSE /\ metaIsSaving' = TRUE
            /\ metaSaveCall' =
                   [pc |-> "writing",
                    kind |-> IF hasExistingCredentials THEN "update" ELSE "insert",
                    row |-> MetaRow(User, metaCredentials.pixel_id,
                                    IF Truthy(metaCredentials.page_id)
                                    THEN metaCredentials.page_id ELSE NULL,
                                    metaCredentials.access_token)]
            /\ toast' = <<>>
            /\ last' = [Step("metaHandleSave") EXCEPT !.net = 1, !.ret = "pending"]
    /\ UNCHANGED <<storeVars, metaCredentials, hasExistingCredentials,
                   fetchCredentialsCall, prevSave>>
    /\ UNCHANGED <<clientVars, adminVars, testVars>>

\* handleSave resumes after the awaited update or insert; fault: the request
\* did not reach the store
MetaHandleSaveSettle(fault) ==
    /\ metaSaveCall.pc = "writing"
    /\ LET req == metaSaveCall
           row == req.row
           refused == req.kind = "insert" /\ MetaInsertRefused(row.user_id)
           error == fault \/ refused
       IN  /\ meta_credentials' =
                  IF error THEN meta_credentials
                  ELSE IF req.kind = "update"
                  THEN MetaUpdate(row.user_id, row.pixel_id, row.page_id,
                                  row.access_token)
                  ELSE MetaInsert(row.user_id, row.pixel_id, row.page_id,
                                  row.access_token)
           /\ hasExistingCredentials' =
                  IF ~error /\ req.kind = "insert" THEN TRUE
                  ELSE hasExistingCredentials
           /\ toast' = IF error
                       THEN <<Toast("Erro ao salvar",
                                    IF fault THEN StoreErrMsg ELSE DuplicateKeyMsg)>>
                       ELSE <<Toast("Salvo com sucesso!",
                                    "Suas credenciais foram atualizadas.")>>
           /\ prevSave' = IF fault THEN NoRow ELSE row
           /\ last' = [Step("metaHandleSaveDone") EXCEPT
                          !.ret = IF error THEN "error" ELSE "ok",
                          !.repeat = ~fault /\ prevSave = row]
    /\ metaIsSaving' = FALSE
    /\ metaSaveCall' = Idle
    /\ UNCHANGED <<profiles, webhook_urls, user_roles, metaCredentials,
                   fetchCredentialsCall>>
    /\ UNCHANGED <<clientVars, adminVars, testVars>>

----------------------------------------------------------------------------
(* Configuracao: handleTestConnection, the validation call to the Meta API *)

MetaErrMsg == "Invalid OAuth access token."

\* the message of the SyntaxError response.json() throws on a body that is
\* not JSON
JsonParseMsg == "Unexpected token < in JSON at position 0"

\* what the awaited fetch can come back with: a 2xx response, a non-2xx
\* response (its body JSON or not, with or without error.message), a throw
MetaResponses ==
    {[kind |-> "ok", json |-> TRUE, message |-> NULL],
     [kind |-> "http", json |-> TRUE, message |-> MetaErrMsg],
     [kind |-> "http", json |-> TRUE, message |-> NULL],
     [kind |-> "http", json |-> FALSE, message |-> NULL],
     [kind |-> "thrown", json |-> FALSE, message |-> StoreErrMsg]}

\* `https://graph.facebook.com/v18.0/${pixel_id}?access_token=${access_token}`
GraphUrl(pixel, token) ==
    "https://graph.facebook.com/v18.0/" \o pixel \o "?access_token=" \o token

\* variant of TestFailureMessage that always gives the generic text
TestFailureMessageGeneric(resp) == "Credenciais inválidas"

\* the message of the error a failed validation ends in the catch with
TestFailureMessage(resp) ==
    IF resp.kind = "thrown" THEN resp.message
    ELSE IF ~resp.json THEN JsonParseMsg
    ELSE IF Truthy(resp.message) THEN resp.message
    ELSE "Credenciais inválidas"

\* click on the test button, up to the awaited fetch
MetaHandleTestClick ==
    /\ ~isTesting
    /\ IF MetaFieldsMissing(metaCredentials)
       THEN /\ toast' = <<Toast("Campos obrigatórios",
                                "Preencha o Pixel ID e Access Token para testar.")>>
            /\ last' = Step("metaTest")
            /\ UNCHANGED <<isTesting, testCall>>
       ELSE /\ isTesting' = TRUE
            /\ testCall' = [pc |-> "fetching", method |-> "GET",
                            url |-> GraphUrl(metaCredentials.pixel_id,
                                             metaCredentials.access_token)]
            /\ toast' = <<>>
            /\ last' = [Step("metaTest") EXCEPT !.net = 1, !.ret = "pending"]
    /\ UNCHANGED <<storeVars, metaCredentials, metaIsSaving, hasExistingCredentials,
                   fetchCredentialsCall, metaSaveCall, prevSave>>
    /\ UNCHANGED <<clientVars, adminVars>>

\* handleTestConnection resumes after the awaited fetch: a 2xx response and a
\* throw end the handler, a non-2xx response goes on to await response.json()
MetaHandleTestFetchSettle(resp) ==
    /\ testCall.pc = "fetching"
    /\ IF resp.kind = "http"
       THEN /\ testCall' = [testCall EXCEPT !.pc = "reading"]
            /\ toast' = <<>>
            /\ last' = [Step("metaTestFetched") EXCEPT !.resp = resp]
            /\ UNCHANGED isTesting
       ELSE /\ testCall' = Idle
            /\ isTesting' = FALSE
            /\ toast' = IF resp.kind = "ok"
                        THEN <<Toast("Conexão bem-sucedida!",
                                     "Suas credenciais estão válidas.")>>
                        ELSE <<Toast("Falha na conexão", TestFailureMessage(resp))>>
            /\ last' = [Step("metaTestDone") EXCEPT
                           !.resp = resp,
                           !.ret = IF resp.kind = "ok" THEN "ok" ELSE "error"]
    /\ UNCHANGED <<storeVars, metaCredentials, metaIsSaving, hasExistingCredentials,
                   fetchCredentialsCall, metaSaveCall, prevSave>>
    /\ UNCHANGED <<clientVars, adminVars>>

\* handleTestConnection resumes after `await response.json()` of the non-2xx
\* response resp and throws into its catch
MetaHandleTestBodySettle(resp) ==
    /\ testCall.pc = "reading"
    /\ resp.kind = "http"
    /\ testCall' = Idle
    /\ isTesting' = FALSE
    /\ toast' = <<Toast("Falha na conexão", TestFailureMessage(resp))>>
    /\ last' = [Step("metaTestDone") EXCEPT !.resp = resp, !.ret = "error"]
    /\ UNCHANGED <<storeVars, metaCredentials, metaIsSaving, hasExistingCredentials,
                   fetchCredentialsCall, metaSaveCall, prevSave>>
    /\ UNCHANGED <<clientVars, adminVars>>

InitMeta ==
    /\ profiles \in InitProfiles
    /\ meta_credentials \in {{MetaRow("u2", "222", "9", "EAAtwo")},
                             {MetaRow("u1", "111", NULL, "EAAold"),
                              MetaRow("u2", "222", "9", "EAAtwo")}}
    /\ webhook_urls = {WebhookRow(1, "u1", "https://hook.example.com/x", TRUE)}
    /\ user_roles = {}
    /\ nextId = 2
    \* the page as mounted: useState defaults, fetchCredentials awaiting
    /\ metaCredentials = [pixel_id |-> "", page_id |-> "", access_token |-> ""]
    /\ metaIsSaving = FALSE
    /\ hasExistingCredentials = FALSE
    /\ fetchCredentialsCall = [pc |-> "pending"]
    /\ metaSaveCall = Idle
    /\ prevSave = NoRow
    /\ isTesting = FALSE
    /\ testCall = Idle
    /\ ClientAtRest
    /\ AdminAtRest
    /\ toast = <<>>
    /\ last = Step("mount")

NextMeta ==
    \/ \E v \in PixelIds : MetaEdit("pixel_id", v)
    \/ \E v \in PageIds : MetaEdit("page_id", v)
    \/ \E v \in AccessTokens : MetaEdit("access_token", v)
    \/ \E failed \in BOOLEAN : FetchCredentialsSettle(failed)
    \/ MetaHandleSaveClick
    \/ \E fault \in BOOLEAN : MetaHandleSaveSettle(fault)
    \/ MetaHandleTestClick
    \/ \E resp \in MetaResponses : MetaHandleTestFetchSettle(resp)
    \/ \E resp \in MetaResponses : MetaHandleTestBodySettle(resp)

SpecMeta == InitMeta /\ [][NextMeta]_vars

----------------------------------------------------------------------------
(* Properties of the Meta credentials card *)

\* C6: a Meta credential save with an empty pixel_id or access_token is
\* rejected before any store call is made and the stored rows are unchanged.
C6_EmptyMetaSaveRejected ==
    [][(last'.op = "metaHandleSave" /\
        (metaCredentials.pixel_id = "" \/ metaCredentials.access_token = "")) =>
            /\ last'.net = 0
            /\ metaSaveCall' = Idle
            /\ ~metaIsSaving'
            /\ meta_credentials' = meta_credentials
            /\ toast' = <<Toast("Campos obrigatórios",
                                "Pixel ID e Access Token são obrigatórios.")>>]_vars

C6_Witness ==
    /\ last.op = "metaHandleSave"
    /\ last.net = 0
    /\ metaCredentials.pixel_id = "123"
    /\ metaCredentials.access_token = ""
    /\ metaSaveCall = Idle

\* the rows of the signed-in user are exactly the row saved last
StoredIsLastSaved == MetaRowsOf(User) = {prevSave}

\* C7: after the same valid Meta credential has been saved twice for the same
\* user, the store holds exactly one row for that user and its fields equal
\* the values saved last.
C7_UpsertIdempotent ==
    (last.op = "metaHandleSaveDone" /\ last.repeat) => StoredIsLastSaved

\* C8: whenever a row exists in the store for the signed-in user at the time
\* of a save, the save updates it in place; otherwise it inserts.
C8_UpsertChoosesByStore ==
    (metaSaveCall.pc = "writing") =>
        (metaSaveCall.kind = "update" <=> MetaRowsOf(User) # {})

\* C17: an operation that failed (the initial fetch, a save) is not issued
\* again by the page itself, and the step in which it failed raised exactly
\* one notification.
C17_EveryFailureNotifiedOnce ==
    (last.ret = "error") =>
        /\ Len(toast) = 1
        /\ last.op = "fetchCredentials" => fetchCredentialsCall.pc = "done"
        /\ last.op = "metaHandleSaveDone" => metaSaveCall = Idle

\* C23: the Meta validation call makes no network call when pixel_id or
\* access_token is empty; with both present it issues one GET for the pixel
\* with the token; a 2xx response is reported as success, a non-2xx response
\* or a throw as one 'Falha na conexão' notification, which carries Meta's
\* error message verbatim when the response has one; and no step of it writes
\* to the primary store. A non-2xx response without a message is reported
\* as 'Credenciais inválidas', one whose body is not JSON with the parser's
\* message, a throw of fetch with the message thrown.
C23_MetaTestReadOnlyAndGated ==
    [][/\ (last'.op = "metaTest" /\
           (metaCredentials.pixel_id = "" \/ metaCredentials.access_token = "")) =>
              /\ last'.net = 0
              /\ testCall' = Idle
              /\ ~isTesting'
              /\ Len(toast') = 1 /\ toast'[1].title = "Campos obrigatórios"
       /\ (last'.op = "metaTest" /\ metaCredentials.pixel_id # ""
                                 /\ metaCredentials.access_token # "") =>
              /\ last'.net = 1
              /\ testCall'.pc = "fetching"
              /\ testCall'.method = "GET"
              /\ testCall'.url = "https://graph.facebook.com/v18.0/"
                                     \o metaCredentials.pixel_id
                                     \o "?access_token="
                                     \o metaCredentials.access_token
       /\ (last'.op = "metaTestFetched") => last'.net = 0 /\ toast' = <<>>
       /\ (last'.op = "metaTestDone") =>
              /\ last'.net = 0
              /\ testCall' = Idle
              /\ ~isTesting'
              /\ Len(toast') = 1
              /\ (last'.resp.kind = "ok") =>
                     toast'[1].title = "Conexão bem-sucedida!"
              /\ (last'.resp.kind # "ok") =>
                     toast'[1].title = "Falha na conexão"
              /\ (last'.resp.kind = "http" /\ last'.resp.json
                                           /\ last'.resp.message # NULL) =>
                     toast'[1].description = last'.resp.message
              /\ (last'.resp.kind = "http" /\ last'.resp.json
                                           /\ last'.resp.message = NULL) =>
                     toast'[1].description = "Credenciais inválidas"
              /\ (last'.resp.kind = "http" /\ ~last'.resp.json) =>
                     toast'[1].description = JsonParseMsg
              /\ (last'.resp.kind = "thrown") =>
                     toast'[1].description = last'.resp.message
       /\ (last'.op \in {"metaTest", "metaTestFetched", "metaTestDone"}) =>
              storeVars' = storeVars]_vars

\* C23 as stated: every non-2xx response ends in a notification that shows
\* an error message the response of Meta carried.
C23_AnyNon2xxShowsMetaMessage ==
    [][(last'.op = "metaTestDone" /\ last'.resp.kind = "http") =>
          /\ last'.resp.json
          /\ last'.resp.message # NULL
          /\ Len(toast') = 1
          /\ toast'[1].description = last'.resp.message]_vars

\* a non-2xx answer of Meta was shown with Meta's message
C23_Witness ==
    /\ last.op = "metaTestDone"
    /\ last.resp.kind = "http"
    /\ toast = <<Toast("Falha na conexão", MetaErrMsg)>>
    /\ metaCredentials.pixel_id = "123"
    /\ metaCredentials.access_token = "EAAnew"
    /\ ~isTesting

----------------------------------------------------------------------------
(* The primary store: has_role and the row-level policies of the migration *)

\* bound on the webhook ids the store hands out
MaxWebhookId == 3

WebhookUrls == {"https://hook.example.com/x", "https://hook.example.com/y"}

RlsErrMsg == "new row violates row-level security policy"

RoleRow(uid, role) == [user_id |-> uid, role |-> role]

\* the values of the enum app_role
AppRoles == {"admin", "user"}

\* variant of has_role that ignores the role asked for
has_roleAnyRole(uid, role) == \E r \in user_roles : r.user_id = uid

\* public.has_role(_user_id, _role)
has_role(uid, role) == \E r \in user_roles : r.user_id = uid /\ r.role = role

\* "Users can view own webhook" FOR SELECT
WebhookSelectPolicy(caller, row) ==
    caller = row.user_id \/ has_role(caller, "admin")

\* variant of WebhookInsertPolicy that also refuses a second row for a user
WebhookInsertPolicyOnePerUser(caller, row) ==
    has_role(caller, "admin") /\ ~\E q \in webhook_urls : q.user_id = row.user_id

\* "Admins can insert webhooks" FOR INSERT WITH CHECK
WebhookInsertPolicy(caller, row) == has_role(caller, "admin")

\* "Admins can update webhooks" FOR UPDATE
WebhookUpdatePolicy(caller, row) == has_role(caller, "admin")

\* variant of WebhookDeletePolicy that also lets the owner delete
WebhookDeletePolicyOwnerToo(caller, row) ==
    caller = row.user_id \/ has_role(caller, "admin")

\* "Admins can delete webhooks" FOR DELETE
WebhookDeletePolicy(caller, row) == has_role(caller, "admin")

\* "Admins can view all profiles" FOR SELECT
ProfilesSelectPolicy(caller, id) == has_role(caller, "admin")

\* the rows a select on webhook_urls returns to caller
VisibleWebhooks(caller) == {r \in webhook_urls : WebhookSelectPolicy(caller, r)}

\* variant of DeletableWebhooks without the .eq('id', id) filter
DeletableWebhooksAnyId(caller, id) ==
    {r \in webhook_urls : WebhookDeletePolicy(caller, r)}

\* the rows a delete ... where id = id issued by caller removes
DeletableWebhooks(caller, id) ==
    {r \in webhook_urls : r.id = id /\ WebhookDeletePolicy(caller, r)}

\* the record `last` of a request made straight to the store's API
ApiStep(op, caller, id, rows, denied) ==
    [op |-> op, caller |-> caller, id |-> id, rows |-> rows, denied |-> denied]

\* select * from webhook_urls, as caller
ApiSelectWebhooks(caller) ==
    /\ last' = ApiStep("select", caller, 0, VisibleWebhooks(caller), FALSE)
    /\ toast' = <<>>
    /\ UNCHANGED <<storeVars, clientVars, metaVars, adminVars>>

\* insert into webhook_urls, as caller
ApiInsertWebhook(caller, uid, url, byAdmin) ==
    /\ nextId <= MaxWebhookId
    /\ LET row == WebhookRow(nextId, uid, url, byAdmin)
       IN  IF WebhookInsertPolicy(caller, row)
           THEN /\ webhook_urls' = webhook_urls \cup {row}
                /\ nextId' = nextId + 1
                /\ last' = ApiStep("insert", caller, row.id, {row}, FALSE)
           ELSE /\ UNCHANGED <<webhook_urls, nextId>>
                /\ last' = ApiStep("insert", caller, row.id, {}, TRUE)
    /\ toast' = <<>>
    /\ UNCHANGED <<profiles, meta_credentials, user_roles, clientVars, metaVars,
                   adminPageVars>>

\* update webhook_urls set webhook_url = url where id = id, as caller
ApiUpdateWebhook(caller, id, url) ==
    /\ LET hit == {r \in webhook_urls : r.id = id /\ WebhookUpdatePolicy(caller, r)}
       IN  /\ webhook_urls' = (webhook_urls \ hit) \cup
                                {[r EXCEPT !.webhook_url = url] : r \in hit}
           /\ last' = ApiStep("update", caller, id, hit, hit = {})
    /\ toast' = <<>>
    /\ UNCHANGED <<profiles, meta_credentials, user_roles, clientVars, metaVars,
                   adminVars>>

\* delete from webhook_urls where id = id, as caller
ApiDeleteWebhook(caller, id) ==
    /\ LET hit == DeletableWebhooks(caller, id)
       IN  /\ webhook_urls' = webhook_urls \ hit
           /\ last' = ApiStep("delete", caller, id, hit, hit = {})
    /\ toast' = <<>>
    /\ UNCHANGED <<profiles, meta_credentials, user_roles, clientVars, metaVars,
                   adminVars>>

\* select has_role(uid, role), as caller; the function is SECURITY DEFINER, so
\* it reads user_roles whatever the caller's own policies are
ApiHasRole(caller, uid, role) ==
    /\ last' = [op |-> "has_role", caller |-> caller, id |-> 0, rows |-> {},
                denied |-> FALSE, args |-> <<uid, role>>,
                result |-> has_role(uid, role)]
    /\ toast' = <<>>
    /\ UNCHANGED <<storeVars, clientVars, metaVars, adminVars>>

InitRoles == {{}, {RoleRow("u1", "user")}, {RoleRow("u1", "admin")},
              {RoleRow("u1", "user"), RoleRow("u2", "admin")},
              {RoleRow("u1", "admin"), RoleRow("u2", "admin")}}

InitStore ==
    /\ profiles \in {q \in InitProfiles : q[User].client_supabase_url = NULL}
    /\ meta_credentials = {MetaRow("u1", "111", NULL, "EAAold")}
    /\ webhook_urls = {WebhookRow(1, "u1", "https://hook.example.com/x", TRUE)}
    /\ user_roles \in InitRoles
    /\ nextId = 2
    /\ ClientAtRest
    /\ MetaAtRest
    /\ AdminAtRest
    /\ toast = <<>>
    /\ last = ApiStep("none", NULL, 0, {}, FALSE)

NextStore ==
    \/ \E caller \in Users : ApiSelectWebhooks(caller)
    \/ \E caller \in Users, uid \in Users, url \in WebhookUrls :
           ApiInsertWebhook(caller, uid, url, FALSE)
    \/ \E caller \in Users, id \in 1..MaxWebhookId, url \in WebhookUrls :
           ApiUpdateWebhook(caller, id, url)
    \/ \E caller \in Users, id \in 1..MaxWebhookId : ApiDeleteWebhook(caller, id)
    \/ \E caller \in Users, uid \in Users \cup {"u3"}, role \in AppRoles :
           ApiHasRole(caller, uid, role)

SpecStore == InitStore /\ [][NextStore]_vars

----------------------------------------------------------------------------
(* Properties of the row-level policies *)

\* C9: webhook rows are created and deleted only by callers for whom
\* has_role(caller, admin) holds, and a select returns a row only to its owner
\* or to an admin; so a caller without the admin role cannot list, create or
\* delete a webhook row of another user.
C9_WebhookRowsAdminOnly ==
    [][/\ (\E r \in webhook_urls' : \A q \in webhook_urls : q.id # r.id) =>
              has_role(last'.caller, "admin")
       /\ (\E q \in webhook_urls : \A r \in webhook_urls' : r.id # q.id) =>
              has_role(last'.caller, "admin")
       /\ (last'.op = "select") =>
              \A r \in last'.rows :
                  r.user_id = last'.caller \/ has_role(last'.caller, "admin")
       /\ ~has_role(last'.caller, "admin") =>
              \A q \in webhook_urls :
                  q.user_id # last'.caller =>
                      /\ q \in webhook_urls'
                      /\ (last'.op = "select" => q \notin last'.rows)]_vars

C9_Witness ==
    /\ last.op = "delete"
    /\ last.denied
    /\ ~has_role(last.caller, "admin")
    /\ \E q \in webhook_urls : q.id = last.id /\ q.user_id # last.caller

\* C13: has_role(user_id, role) answers true exactly when user_roles holds a
\* row for that (user, role) pair and false otherwise, also for a user with no
\* role row at all or with another role only; the call is answered, never
\* refused, and leaves every table unchanged.
C13_HasRoleIsRowLookup ==
    [][(last'.op = "has_role") =>
            /\ last'.result \in BOOLEAN
            /\ last'.result = (RoleRow(last'.args[1], last'.args[2]) \in user_roles)
            /\ ~last'.denied
            /\ storeVars' = storeVars]_vars

C13_Witness ==
    /\ last.op = "has_role"
    /\ last.args = <<"u1", "admin">>
    /\ RoleRow("u1", "user") \in user_roles
    /\ last.result = FALSE

----------------------------------------------------------------------------
(* AdminWebhooks page *)

NoProfile == [id |-> NULL, email |-> NULL]

\* the users in the order of their profile's email
UsersByEmail == <<"u1", "u2">>

\* profiles.select('id, email').order('email'), as caller
ProfilesByEmail(caller) ==
    LET ids == SelectSeq(UsersByEmail, LAMBDA u : ProfilesSelectPolicy(caller, u))
    IN  [k \in 1..Len(ids) |-> [id |-> ids[k], email |-> profiles[ids[k]].email]]

\* rows ordered by created_at descending (ids are handed out in creation order)
NewestFirst(rows) ==
    LET desc == [i \in 1..MaxWebhookId |-> MaxWebhookId + 1 - i]
        ids == SelectSeq(desc, LAMBDA i : \E r \in rows : r.id = i)
    IN  [k \in 1..Len(ids) |-> CHOOSE r \in rows : r.id = ids[k]]

\* variant of FindProfile that takes the first loaded profile, whoever's it is
FindProfileFirst(profs, uid) == IF Len(profs) > 0 THEN profs[1] ELSE NoProfile

\* profiles.find(p => p.id === uid), undefined when there is none
FindProfile(profs, uid) ==
    IF \E k \in 1..Len(profs) : profs[k].id = uid
    THEN profs[CHOOSE k \in 1..Len(profs) :
                   profs[k].id = uid /\ \A j \in 1..(k - 1) : profs[j].id # uid]
    ELSE NoProfile

\* { ...webhook, profiles: profile }
Entry(row, profile) ==
    [id |-> row.id, user_id |-> row.user_id, webhook_url |-> row.webhook_url,
     created_by_admin |-> row.created_by_admin, profiles |-> profile]

\* the label of a listed entry: webhook.profiles?.email || 'Usuário desconhecido'
Label(entry) ==
    IF entry.profiles # NoProfile /\ Truthy(entry.profiles.email)
    THEN entry.profiles.email
    ELSE "Usuário desconhecido"

\* what the component renders
AdminView ==
    IF adminLoading THEN "spinner"
    ELSE IF ~isAdmin THEN "redirect"
    ELSE "content"

\* variant of FetchDataEffect without the isAdmin guard
FetchDataEffectUnguarded(nowAdmin) ==
    [call |-> [pc |-> "profiles"], queries |-> adminQueries \cup {"profiles"}]

\* the effect on [isAdmin]: returns at once unless isAdmin, else starts
\* fetchData, which runs up to its awaited profiles query
FetchDataEffect(nowAdmin) ==
    IF ~nowAdmin
    THEN [call |-> fetchDataCall, queries |-> adminQueries]
    ELSE [call |-> [pc |-> "profiles"], queries |-> adminQueries \cup {"profiles"}]

\* useAdmin settles: isAdmin is has_role(user, 'admin'), loading ends; the
\* render that follows runs the effect on [isAdmin]
UseAdminResolve ==
    /\ adminLoading
    /\ adminLoading' = FALSE
    /\ isAdmin' = has_role(User, "admin")
    /\ LET e == FetchDataEffect(isAdmin')
       IN  /\ fetchDataCall' = e.call
           /\ adminQueries' = e.queries
    /\ toast' = <<>>
    /\ last' = Step("useAdmin")
    /\ UNCHANGED <<storeVars, nextId, adminProfiles, adminWebhooks, selectedUserId,
                   webhookUrl, adminIsSaving, isLoading, addCall, deleteCalls>>
    /\ UNCHANGED <<clientVars, metaVars, peerVars>>

\* fetchData resumes after the awaited profiles query and goes on to the
\* awaited webhook_urls query; failed: the query gave no data
FetchDataProfilesSettle(failed) ==
    /\ fetchDataCall.pc = "profiles"
    /\ LET profilesData == IF failed THEN <<>> ELSE ProfilesByEmail(User)
       IN  /\ adminProfiles' = IF failed THEN adminProfiles ELSE profilesData
           /\ fetchDataCall' = [pc |-> "webhooks", profilesData |-> profilesData]
    /\ adminQueries' = adminQueries \cup {"webhook_urls"}
    /\ toast' = <<>>
    /\ last' = Step("fetchDataProfiles")
    /\ UNCHANGED <<storeVars, nextId, isAdmin, adminLoading, adminWebhooks,
                   selectedUserId, webhookUrl, adminIsSaving, isLoading, addCall,
                   deleteCalls>>
    /\ UNCHANGED <<clientVars, metaVars, peerVars>>

\* fetchData resumes after the awaited webhook_urls query
FetchDataWebhooksSettle(failed) ==
    /\ fetchDataCall.pc = "webhooks"
    /\ LET webhooksData == NewestFirst(VisibleWebhooks(User))
       IN  adminWebhooks' =
               IF failed THEN adminWebhooks
               ELSE [k \in 1..Len(webhooksData) |->
                        Entry(webhooksData[k],
                              FindProfile(fetchDataCall.profilesData,
                                          webhooksData[k].user_id))]
    /\ isLoading' = FALSE
    /\ fetchDataCall' = [pc |-> "done"]
    /\ toast' = <<>>
    /\ last' = [Step("fetchDataWebhooks") EXCEPT !.ret = IF failed THEN "error" ELSE "ok"]
    /\ UNCHANGED <<storeVars, nextId, isAdmin, adminLoading, adminProfiles,
                   selectedUserId, webhookUrl, adminIsSaving, addCall, deleteCalls,
                   adminQueries>>
    /\ UNCHANGED <<clientVars, metaVars, peerVars>>

\* onValueChange of the user select, whose items are the loaded profiles
SelectUser(u) ==
    /\ AdminView = "content"
    /\ \E k \in 1..Len(adminProfiles) : adminProfiles[k].id = u
    /\ u # selectedUserId
    /\ selectedUserId' = u
    /\ toast' = <<>>
    /\ last' = Step("selectUser")
    /\ UNCHANGED <<storeVars, nextId, isAdmin, adminLoading, adminProfiles,
                   adminWebhooks, webhookUrl, adminIsSaving, isLoading,
                   fetchDataCall, addCall, deleteCalls, adminQueries>>
    /\ UNCHANGED <<clientVars, metaVars, peerVars>>

\* onChange of the webhook url input
EditWebhookUrl(v) ==
    /\ AdminView = "content"
    /\ v # webhookUrl
    /\ webhookUrl' = v
    /\ toast' = <<>>
    /\ last' = Step("editWebhookUrl")
    /\ UNCHANGED <<storeVars, nextId, isAdmin, adminLoading, adminProfiles,
                   adminWebhooks, selectedUserId, adminIsSaving, isLoading,
                   fetchDataCall, addCall, deleteCalls, adminQueries>>
    /\ UNCHANGED <<clientVars, metaVars, peerVars>>

AlreadyExistsToast ==
    Toast("Usuário já possui webhook",
          "Este usuário já tem um webhook cadastrado. Delete o existente primeiro.")

\* variant of AddFieldsMissing that looks at the selected user only
AddFieldsMissingUserOnly(uid, url) == uid = ""

\* !selectedUserId || !webhookUrl
AddFieldsMissing(uid, url) == uid = "" \/ url = ""

\* click on Add, up to the awaited insert
HandleAddWebhookClick ==
    /\ AdminView = "content"
    /\ ~adminIsSaving
    /\ IF AddFieldsMissing(selectedUserId, webhookUrl)
       THEN /\ toast' = <<Toast("Campos obrigatórios",
                                "Selecione um usuário e insira a URL do webhook.")>>
            /\ last' = Step("handleAddWebhook")
            /\ UNCHANGED <<adminIsSaving, addCall>>
       ELSE IF \E k \in 1..Len(adminWebhooks) : adminWebhooks[k].user_id = selectedUserId
       THEN /\ toast' = <<AlreadyExistsToast>>
            /\ last' = [Step("handleAddWebhook") EXCEPT !.ret = "exists"]
            /\ UNCHANGED <<adminIsSaving, addCall>>
       ELSE /\ nextId <= MaxWebhookId
            /\ adminIsSaving' = TRUE
            /\ addCall' = [pc |-> "writing", user_id |-> selectedUserId,
                           webhook_url |-> webhookUrl, profiles |-> adminProfiles]
            /\ toast' = <<>>
            /\ last' = [Step("handleAddWebhook") EXCEPT !.net = 1, !.ret = "pending"]
    /\ UNCHANGED <<storeVars, nextId, isAdmin, adminLoading, adminProfiles,
                   adminWebhooks, selectedUserId, webhookUrl, isLoading,
                   fetchDataCall, deleteCalls, adminQueries>>
    /\ UNCHANGED <<clientVars, metaVars, peerVars>>

\* variant of PrependWebhook that puts the new entry last
AppendWebhook(prev, entry) == prev \o <<entry>>

\* setWebhooks(prev => [entry, ...prev])
PrependWebhook(prev, entry) == <<entry>> \o prev

\* handleAddWebhook resumes after the awaited insert(...).select().single();
\* fault: the request did not reach the store
HandleAddWebhookSettle(fault) ==
    /\ addCall.pc = "writing"
    /\ LET row == WebhookRow(nextId, addCall.user_id, addCall.webhook_url, TRUE)
           error == fault \/ ~WebhookInsertPolicy(User, row)
       IN  IF error
           THEN /\ toast' = <<Toast("Erro ao adicionar",
                                    IF fault THEN StoreErrMsg ELSE RlsErrMsg)>>
                /\ last' = [Step("handleAddWebhookDone") EXCEPT !.ret = "error"]
                /\ UNCHANGED <<webhook_urls, nextId, adminWebhooks, selectedUserId,
                               webhookUrl>>
           ELSE /\ webhook_urls' = webhook_urls \cup {row}
                /\ nextId' = nextId + 1
                /\ adminWebhooks' =
                       PrependWebhook(adminWebhooks,
                           Entry(row, FindProfile(addCall.profiles, addCall.user_id)))
                /\ selectedUserId' = ""
                /\ webhookUrl' = ""
                /\ toast' = <<Toast("Webhook adicionado!",
                                    "O webhook foi cadastrado com sucesso.")>>
                /\ last' = [Step("handleAddWebhookDone") EXCEPT !.ret = "ok"]
    /\ adminIsSaving' = FALSE
    /\ addCall' = Idle
    /\ UNCHANGED <<profiles, meta_credentials, user_roles, isAdmin, adminLoading,
                   adminProfiles, isLoading, fetchDataCall, deleteCalls,
                   adminQueries>>
    /\ UNCHANGED <<clientVars, metaVars, peerVars>>

\* click on the trash button of a listed row, up to the awaited delete
HandleDeleteWebhookClick(id) ==
    /\ AdminView = "content"
    /\ ~isLoading
    /\ \E k \in 1..Len(adminWebhooks) : adminWebhooks[k].id = id
    /\ id \notin deleteCalls
    /\ deleteCalls' = deleteCalls \cup {id}
    /\ toast' = <<>>
    /\ last' = [Step("handleDeleteWebhook") EXCEPT !.net = 1, !.ret = "pending"]
    /\ UNCHANGED <<storeVars, nextId, isAdmin, adminLoading, adminProfiles,
                   adminWebhooks, selectedUserId, webhookUrl, adminIsSaving,
                   isLoading, fetchDataCall, addCall, adminQueries>>
    /\ UNCHANGED <<clientVars, metaVars, peerVars>>

\* handleDeleteWebhook resumes after the awaited delete
HandleDeleteWebhookSettle(id, fault) ==
    /\ id \in deleteCalls
    /\ deleteCalls' = deleteCalls \ {id}
    /\ IF fault
       THEN /\ toast' = <<Toast("Erro ao remover", StoreErrMsg)>>
            /\ last' = [Step("handleDeleteWebhookDone") EXCEPT !.ret = "error"]
            /\ UNCHANGED <<webhook_urls, adminWebhooks>>
       ELSE /\ webhook_urls' = webhook_urls \ DeletableWebhooks(User, id)
            /\ adminWebhooks' = SelectSeq(adminWebhooks, LAMBDA w : w.id # id)
            /\ toast' = <<Toast("Webhook removido!",
                                "O webhook foi removido com sucesso.")>>
            /\ last' = [Step("handleDeleteWebhookDone") EXCEPT !.ret = "ok"]
    /\ UNCHANGED <<profiles, meta_credentials, user_roles, nextId, isAdmin,
                   adminLoading, adminProfiles, selectedUserId, webhookUrl,
                   adminIsSaving, isLoading, fetchDataCall, addCall, adminQueries>>
    /\ UNCHANGED <<clientVars, metaVars, peerVars>>

----------------------------------------------------------------------------
(* AdminWebhooks page of a second admin, open at the same time *)

\* what the second admin types into the webhook url input
PeerUrls == {"https://hook.example.com/y"}

\* fetchData of the second page, opened by a user whose isAdmin is true,
\* resumes after its awaited webhook_urls query
PeerFetchDataSettle ==
    /\ has_role(Peer, "admin")
    /\ peerAddCall.pc = "loading"
    /\ LET webhooksData == NewestFirst(VisibleWebhooks(Peer))
       IN  /\ peerWebhooks' =
                 [k \in 1..Len(webhooksData) |->
                     Entry(webhooksData[k],
                           FindProfile(ProfilesByEmail(Peer), webhooksData[k].user_id))]
    /\ peerAddCall' = Idle
    /\ toast' = <<>>
    /\ last' = Step("peerFetchData")
    /\ UNCHANGED <<storeVars, nextId, isAdmin, adminLoading, adminProfiles,
                   adminWebhooks, selectedUserId, webhookUrl, adminIsSaving,
                   isLoading, fetchDataCall, addCall, deleteCalls, adminQueries>>
    /\ UNCHANGED <<clientVars, metaVars>>

\* click on Add in the second page with uid selected and url typed, up to the
\* awaited insert
PeerHandleAddWebhookClick(uid, url) ==
    /\ has_role(Peer, "admin")
    /\ peerAddCall = Idle
    /\ IF AddFieldsMissing(uid, url)
       THEN /\ last' = [Step("peerAddWebhook") EXCEPT !.ret = "missing"]
            /\ UNCHANGED peerAddCall
       ELSE IF \E k \in 1..Len(peerWebhooks) : peerWebhooks[k].user_id = uid
       THEN /\ last' = [Step("peerAddWebhook") EXCEPT !.ret = "exists"]
            /\ UNCHANGED peerAddCall
       ELSE /\ nextId <= MaxWebhookId
            /\ peerAddCall' = [pc |-> "writing", user_id |-> uid, webhook_url |-> url]
            /\ last' = [Step("peerAddWebhook") EXCEPT !.net = 1, !.ret = "pending"]
    \* its notifications are shown in the second page, not in the one studied
    /\ toast' = <<>>
    /\ UNCHANGED <<storeVars, nextId, isAdmin, adminLoading, adminProfiles,
                   adminWebhooks, selectedUserId, webhookUrl, adminIsSaving,
                   isLoading, fetchDataCall, addCall, deleteCalls, adminQueries,
                   peerWebhooks>>
    /\ UNCHANGED <<clientVars, metaVars>>

\* handleAddWebhook of the second page resumes after its awaited insert
PeerHandleAddWebhookSettle(fault) ==
    /\ peerAddCall.pc = "writing"
    /\ LET row == WebhookRow(nextId, peerAddCall.user_id, peerAddCall.webhook_url, TRUE)
           error == fault \/ ~WebhookInsertPolicy(Peer, row)
       IN  IF error
           THEN /\ last' = [Step("peerAddWebhookDone") EXCEPT
                               !.ret = IF fault THEN "fault" ELSE "denied"]
                /\ UNCHANGED <<webhook_urls, nextId, peerWebhooks>>
           ELSE /\ webhook_urls' = webhook_urls \cup {row}
                /\ nextId' = nextId + 1
                /\ peerWebhooks' =
                       PrependWebhook(peerWebhooks,
                           Entry(row, FindProfile(ProfilesByEmail(Peer),
                                                  peerAddCall.user_id)))
                /\ last' = [Step("peerAddWebhookDone") EXCEPT !.ret = "ok"]
    /\ toast' = <<>>
    /\ peerAddCall' = Idle
    /\ UNCHANGED <<profiles, meta_credentials, user_roles, isAdmin, adminLoading,
                   adminProfiles, adminWebhooks, selectedUserId, webhookUrl,
                   adminIsSaving, isLoading, fetchDataCall, addCall, deleteCalls,
                   adminQueries>>
    /\ UNCHANGED <<clientVars, metaVars>>

InitAdmin ==
    /\ profiles \in {q \in InitProfiles : q[User].client_supabase_url = NULL}
    /\ meta_credentials = {MetaRow("u1", "111", NULL, "EAAold")}
    /\ webhook_urls \in {{}, {WebhookRow(1, "u2", "https://hook.example.com/x", TRUE)}}
    /\ user_roles \in InitRoles
    /\ nextId = 2
    \* the page as mounted: useState defaults, useAdmin still loading
    /\ AdminAtRest
    /\ ClientAtRest
    /\ MetaAtRest
    /\ toast = <<>>
    /\ last = Step("mount")

NextAdmin ==
    \/ UseAdminResolve
    \/ \E failed \in BOOLEAN : FetchDataProfilesSettle(failed)
    \/ \E failed \in BOOLEAN : FetchDataWebhooksSettle(failed)
    \/ \E u \in Users : SelectUser(u)
    \/ \E v \in WebhookUrls \cup {""} : EditWebhookUrl(v)
    \/ HandleAddWebhookClick
    \/ \E fault \in BOOLEAN : HandleAddWebhookSettle(fault)
    \/ \E id \in 1..MaxWebhookId : HandleDeleteWebhookClick(id)
    \/ \E id \in 1..MaxWebhookId, fault \in BOOLEAN : HandleDeleteWebhookSettle(id, fault)

SpecAdmin == InitAdmin /\ [][NextAdmin]_vars

----------------------------------------------------------------------------
(* Specification of two admin pages open at the same time *)

InitAdminPair ==
    /\ profiles \in {q \in InitProfiles : q[User].client_supabase_url = NULL}
    /\ meta_credentials = {MetaRow("u1", "111", NULL, "EAAold")}
    /\ webhook_urls \in {{}, {WebhookRow(1, "u2", "https://hook.example.com/x", TRUE)}}
    /\ user_roles \in {r \in InitRoles : RoleRow(User, "admin") \in r}
    /\ nextId = 2
    /\ AdminAtRest
    /\ ClientAtRest
    /\ MetaAtRest
    /\ toast = <<>>
    /\ last = Step("mount")

NextAdminPair ==
    \/ UseAdminResolve
    \/ \E failed \in BOOLEAN : FetchDataProfilesSettle(failed)
    \/ \E failed \in BOOLEAN : FetchDataWebhooksSettle(failed)
    \/ \E u \in Users : SelectUser(u)
    \/ \E v \in {"https://hook.example.com/x", ""} : EditWebhookUrl(v)
    \/ HandleAddWebhookClick
    \/ \E fault \in BOOLEAN : HandleAddWebhookSettle(fault)
    \/ \E id \in 1..MaxWebhookId : HandleDeleteWebhookClick(id)
    \/ \E id \in 1..MaxWebhookId, fault \in BOOLEAN : HandleDeleteWebhookSettle(id, fault)
    \/ PeerFetchDataSettle
    \/ \E uid \in Users, url \in PeerUrls : PeerHandleAddWebhookClick(uid, url)
    \/ \E fault \in BOOLEAN : PeerHandleAddWebhookSettle(fault)

SpecAdminPair == InitAdminPair /\ [][NextAdminPair]_vars

----------------------------------------------------------------------------
(* Properties of the AdminWebhooks page *)

\* C10: once the role check has resolved, a caller for whom
\* has_role(caller, admin) is false is redirected to the dashboard, is shown
\* neither the admin content nor a permission error, and the page has issued
\* no profile or webhook listing query for them.
C10_NonAdminRedirectedWithoutQueries ==
    (~adminLoading /\ ~has_role(User, "admin")) =>
        /\ AdminView = "redirect"
        /\ adminQueries = {}
        /\ fetchDataCall = Idle
        /\ adminProfiles = <<>>
        /\ adminWebhooks = <<>>
        /\ toast = <<>>

C10_Witness ==
    /\ ~adminLoading
    /\ ~has_role(User, "admin")
    /\ has_role(User, "user")
    /\ AdminView = "redirect"
    /\ webhook_urls # {}

\* C11: a create for a selected user who already has a webhook row in the
\* store is rejected with the "already exists" notification: no insert is
\* issued and no row is written.
C11_SecondWebhookRejected ==
    [][(/\ last'.op = "handleAddWebhook"
        /\ selectedUserId # ""
        /\ webhookUrl # ""
        /\ \E r \in webhook_urls : r.user_id = selectedUserId) =>
            /\ last'.ret = "exists"
            /\ toast' = <<AlreadyExistsToast>>
            /\ addCall' = Idle
            /\ webhook_urls' = webhook_urls]_vars

\* C12: a create by an admin for a user U with no webhook row and a non-empty
\* URL that the store accepted inserts exactly one row, with user_id = U, the
\* URL given and created_by_admin = true, and puts that row first in the
\* displayed listing, the former listing following it unchanged.
C12_CreateInsertsOneRowOnTop ==
    [][(/\ last'.op = "handleAddWebhookDone"
        /\ last'.ret = "ok"
        /\ ~\E r \in webhook_urls : r.user_id = addCall.user_id) =>
            /\ addCall.webhook_url # ""
            /\ has_role(User, "admin")
            /\ \E row \in webhook_urls' :
                   /\ row \notin webhook_urls
                   /\ webhook_urls' = webhook_urls \cup {row}
                   /\ row.user_id = addCall.user_id
                   /\ row.webhook_url = addCall.webhook_url
                   /\ row.created_by_admin = TRUE
                   /\ \A q \in webhook_urls : q.id # row.id
                   /\ Len(adminWebhooks') = Len(adminWebhooks) + 1
                   /\ Head(adminWebhooks').id = row.id
                   /\ Head(adminWebhooks').user_id = row.user_id
                   /\ Head(adminWebhooks').webhook_url = row.webhook_url
                   /\ Tail(adminWebhooks') = adminWebhooks]_vars

C12_Witness ==
    /\ last.op = "handleAddWebhookDone"
    /\ last.ret = "ok"
    /\ Len(adminWebhooks) = 2
    /\ adminWebhooks[1].user_id = "u1"
    /\ adminWebhooks[1].webhook_url = "https://hook.example.com/x"
    /\ adminWebhooks[1].created_by_admin = TRUE
    /\ adminWebhooks[2].user_id = "u2"
    /\ Cardinality({r \in webhook_urls : r.user_id = "u1"}) = 1

\* C20: a create with no selected user or with an empty URL is rejected with
\* the required-fields notification before any store call: no insert is
\* issued, and neither the store nor the displayed listing changes.
C20_CreateRequiresUserAndUrl ==
    [][(/\ last'.op = "handleAddWebhook"
        /\ (selectedUserId = "" \/ webhookUrl = "")) =>
            /\ toast' = <<Toast("Campos obrigatórios",
                                "Selecione um usuário e insira a URL do webhook.")>>
            /\ last'.net = 0
            /\ addCall' = Idle
            /\ ~adminIsSaving'
            /\ storeVars' = storeVars
            /\ nextId' = nextId
            /\ adminWebhooks' = adminWebhooks]_vars

C20_Witness ==
    /\ last.op = "handleAddWebhook"
    /\ selectedUserId = "u1"
    /\ webhookUrl = ""
    /\ toast # <<>>
    /\ adminWebhooks # <<>>

WebhooksOf(rows, uid) == {r \in rows : r.user_id = uid}

\* C15: the store accepts an insert by an admin whatever rows it already
\* holds: a create that passed its page's listing check and reached the store
\* fails only on a transport fault, and on success the user has one webhook
\* row more than before. So two admin pages that each loaded a listing with no
\* webhook for U can both complete a create for U, leaving two rows for U.
C15_StoreAcceptsSecondRow ==
    [][/\ (last'.op = "handleAddWebhookDone" /\ has_role(User, "admin")) =>
              /\ last'.ret = "error" => toast' = <<Toast("Erro ao adicionar", StoreErrMsg)>>
              /\ last'.ret = "ok" =>
                     Cardinality(WebhooksOf(webhook_urls', addCall.user_id)) =
                         Cardinality(WebhooksOf(webhook_urls, addCall.user_id)) + 1
       /\ (last'.op = "peerAddWebhookDone" /\ has_role(Peer, "admin")) =>
              /\ last'.ret \in {"ok", "fault"}
              /\ last'.ret = "ok" =>
                     Cardinality(WebhooksOf(webhook_urls', peerAddCall.user_id)) =
                         Cardinality(WebhooksOf(webhook_urls, peerAddCall.user_id)) + 1]_vars

\* both pages hold a listing with exactly their own new row for u1, and the
\* store holds the two rows
C15_Witness ==
    /\ last.op = "peerAddWebhookDone"
    /\ last.ret = "ok"
    /\ Cardinality(WebhooksOf(webhook_urls, "u1")) = 2
    /\ \E k \in 1..Len(adminWebhooks) :
           /\ adminWebhooks[k].user_id = "u1"
           /\ \A j \in 1..Len(adminWebhooks) : adminWebhooks[j].user_id = "u1" => j = k
    /\ \E k \in 1..Len(peerWebhooks) :
           /\ peerWebhooks[k].user_id = "u1"
           /\ \A j \in 1..Len(peerWebhooks) : peerWebhooks[j].user_id = "u1" => j = k
    /\ adminWebhooks[1].id # peerWebhooks[1].id
    /\ fetchDataCall.pc = "done"

\* C21: a delete the store accepted removes exactly the row with the given id
\* from the store and from the displayed listing and leaves every other row
\* and entry as it was; a delete that failed leaves store and listing unchanged.
C21_DeleteRemovesExactlyOne ==
    [][(last'.op = "handleDeleteWebhookDone") =>
          \E id \in deleteCalls \ deleteCalls' :
              IF last'.ret = "ok"
              THEN /\ webhook_urls' = {r \in webhook_urls : r.id # id}
                   /\ adminWebhooks' = SelectSeq(adminWebhooks, LAMBDA w : w.id # id)
                   /\ \A k \in 1..Len(adminWebhooks') : adminWebhooks'[k].id # id
                   /\ \A r \in webhook_urls' : r.id # id
              ELSE /\ adminWebhooks' = adminWebhooks
                   /\ webhook_urls' = webhook_urls]_vars

\* the row with id 1 was deleted while another row and its entry stayed
C21_Witness ==
    /\ last.op = "handleDeleteWebhookDone"
    /\ last.ret = "ok"
    /\ \A r \in webhook_urls : r.id # 1
    /\ webhook_urls # {}
    /\ Len(adminWebhooks) = Cardinality(webhook_urls)

\* C22: a listing load that the store answered gives one entry per webhook
\* row returned, in the order returned; each entry carries the loaded profile
\* with the row's user_id and is labelled with its email, and an entry whose
\* owner is not among the loaded profiles is listed with the placeholder label.
C22_ListingLeftJoin ==
    [][(last'.op = "fetchDataWebhooks" /\ last'.ret = "ok") =>
          LET rows == NewestFirst(VisibleWebhooks(User))
              profs == fetchDataCall.profilesData
          IN  /\ Len(adminWebhooks') = Cardinality(webhook_urls)
              /\ Len(adminWebhooks') = Len(rows)
              /\ \A k \in 1..Len(rows) :
                     /\ adminWebhooks'[k].id = rows[k].id
                     /\ adminWebhooks'[k].user_id = rows[k].user_id
                     /\ adminWebhooks'[k].webhook_url = rows[k].webhook_url
                     /\ IF \E j \in 1..Len(profs) : profs[j].id = rows[k].user_id
                        THEN /\ adminWebhooks'[k].profiles.id = rows[k].user_id
                             /\ Label(adminWebhooks'[k]) = profiles[rows[k].user_id].email
                        ELSE /\ adminWebhooks'[k].profiles = NoProfile
                             /\ Label(adminWebhooks'[k]) = "Usuário desconhecido"]_vars

\* the profiles query gave nothing, the webhook of u2 is listed all the same
C22_Witness ==
    /\ last.op = "fetchDataWebhooks"
    /\ last.ret = "ok"
    /\ adminProfiles = <<>>
    /\ Len(adminWebhooks) = 1
    /\ adminWebhooks[1].user_id = "u2"
    /\ Label(adminWebhooks[1]) = "Usuário desconhecido"

\* no request of the page is awaiting the store
AdminAtQuiet ==
    /\ ~adminLoading
    /\ fetchDataCall.pc = "done"
    /\ addCall = Idle
    /\ deleteCalls = {}

\* C26: with one admin session, whenever no request of the page is in flight
\* the displayed listing holds exactly the webhook rows of the store, each
\* once.
C26_ListingEqualsStore ==
    (isAdmin /\ AdminAtQuiet) =>
        /\ {adminWebhooks[k].id : k \in 1..Len(adminWebhooks)} =
               {r.id : r \in webhook_urls}
        /\ Len(adminWebhooks) = Cardinality(webhook_urls)

====
